---- MODULE Spec2Model ----
(***************************************************************************)
(* FilePagedSequence (N6Lib/n6lib/common_helpers.py): a mutable sequence   *)
(* that keeps only the current page in memory and pickles the other pages  *)
(* to files of a lazily created temporary directory.                       *)
(*                                                                         *)
(* The object's fields are the variables; every public method is one       *)
(* action.  The methods themselves are operators on a record `self` that   *)
(* carries the fields, the directory/files they own, the raised exception  *)
(* (exc), the returned value (ret) and the page events of the call (log):  *)
(* <<"dump", p>> a page file written, <<"load", p>> a page file read,      *)
(* <<"new", p>> a page started empty.  The field fault is the state of the *)
(* backing store during the call: "none", or "write" / "read" when opening *)
(* a page file for writing / reading fails.                                *)
(***************************************************************************)
EXTENDS Integers, Sequences, FiniteSets, TLC

\* ---- bounds of the exploration ----
MaxLen == 4
MaxPageSize == 2
MaxExtend == 2

Items == {"a", "b"}

\* ---- values ----
None == <<>>                    \* self._cur_page_no = None
PageNo(n) == <<n>>              \* self._cur_page_no = n
NoRet == "None"                 \* a call that returns None (or raised)
NoExc == "none"

NoFiles == [p \in {} |-> <<>>]

Max(a, b) == IF a >= b THEN a ELSE b
Min(a, b) == IF a <= b THEN a ELSE b

SeqsUpTo(n) == UNION {[1..k -> Items] : k \in 0..n}

RemoveAt(s, i) == [k \in 1..(Len(s) - 1) |-> IF k < i THEN s[k] ELSE s[k + 1]]

VARIABLES
    page_size,       \* self._page_size
    cur_len,         \* self._cur_len
    cur_page_no,     \* self._cur_page_no
    cur_page_data,   \* self._cur_page_data
    closed,          \* self._closed
    has_dir,         \* '_dir' in self.__dict__ (the reified temp dir path)
    dir_exists,      \* the directory self._dir exists on disk
    files,           \* page number -> unpickled content of that page file
    scope,           \* "new": just constructed; "with": inside the body of
                     \* `with FilePagedSequence(...) as seq:`; "plain": otherwise
    ref,             \* a plain list subjected to the same mutating calls
    max_len          \* the largest length the sequence has ever had

vars == <<page_size, cur_len, cur_page_no, cur_page_data, closed, has_dir,
          dir_exists, files, scope, ref, max_len>>

\* ---- the object as a record ----
Self ==
    [cur_len |-> cur_len, cur_page_no |-> cur_page_no,
     cur_page_data |-> cur_page_data, closed |-> closed,
     has_dir |-> has_dir, dir_exists |-> dir_exists, files |-> files,
     exc |-> NoExc, ret |-> NoRet, log |-> <<>>, fault |-> "none"]

Raise(self, e) == [self EXCEPT !.exc = e, !.ret = NoRet]
Return(self, v) == [self EXCEPT !.ret = v]

\* ---- non-public stuff ----

\* @reify _dir: tempfile.mkdtemp() on the first access, cached afterwards
dir(self) ==
    IF self.has_dir THEN self
    ELSE [self EXCEPT !.has_dir = TRUE, !.dir_exists = TRUE]

filesystem_used(self) == self.has_dir

\* osp.join(self._dir, str(page_no)): touches self._dir
get_page_filename(self, page_no) == dir(self)

\* variant: the page is written only when it has no file yet
save_page_IfAbsent(self, page_no) ==
    LET s == dir(self) IN
    IF ~s.dir_exists THEN Raise(s, "IOError")
    ELSE IF page_no \in DOMAIN s.files THEN s
    ELSE [s EXCEPT !.files =
            [p \in (DOMAIN s.files) \cup {page_no} |->
                IF p = page_no THEN s.cur_page_data ELSE s.files[p]],
                   !.log = Append(@, <<"dump", page_no>>)]

\* open(filename, 'wb'); cPickle.dump(self._cur_page_data, f, -1)
save_page(self, page_no) ==
    LET s == get_page_filename(self, page_no) IN
    IF ~s.dir_exists \/ s.fault = "write" THEN Raise(s, "IOError")
    ELSE [s EXCEPT !.files = (page_no :> s.cur_page_data) @@ s.files,
                   !.log = Append(@, <<"dump", page_no>>)]

\* open(filename, 'rb'); self._cur_page_data = cPickle.load(f)
load_page(self, page_no) ==
    LET s == get_page_filename(self, page_no) IN
    IF ~s.dir_exists \/ page_no \notin DOMAIN s.files \/ s.fault = "read"
    THEN Raise(s, "IOError")
    ELSE [s EXCEPT !.cur_page_data = s.files[page_no],
                   !.log = Append(@, <<"load", page_no>>)]

\* variant: the outgoing page is never saved
switch_to_NoSave(self, page_no, new) ==
    LET s2 == IF new THEN [self EXCEPT !.cur_page_data = <<>>,
                                       !.log = Append(@, <<"new", page_no>>)]
              ELSE load_page(self, page_no)
    IN IF s2.exc # NoExc THEN s2
       ELSE [s2 EXCEPT !.cur_page_no = PageNo(page_no)]

\* variant: the outgoing page is saved only when another page is loaded
switch_to_NoSaveOnNew(self, page_no, new) ==
    LET s1 == IF self.cur_page_no # None /\ ~new
              THEN save_page(self, self.cur_page_no[1])
              ELSE self
        s2 == IF s1.exc # NoExc THEN s1
              ELSE IF new THEN [s1 EXCEPT !.cur_page_data = <<>>,
                                          !.log = Append(@, <<"new", page_no>>)]
              ELSE load_page(s1, page_no)
    IN IF s2.exc # NoExc THEN s2
       ELSE [s2 EXCEPT !.cur_page_no = PageNo(page_no)]

\* variant: the outgoing page is saved only when it differs from its file
switch_to_SaveIfChanged(self, page_no, new) ==
    LET s1 == IF self.cur_page_no # None
                 /\ (\/ self.cur_page_no[1] \notin DOMAIN self.files
                     \/ self.files[self.cur_page_no[1]] # self.cur_page_data)
              THEN save_page(self, self.cur_page_no[1])
              ELSE self
        s2 == IF s1.exc # NoExc THEN s1
              ELSE IF new THEN [s1 EXCEPT !.cur_page_data = <<>>,
                                          !.log = Append(@, <<"new", page_no>>)]
              ELSE load_page(s1, page_no)
    IN IF s2.exc # NoExc THEN s2
       ELSE [s2 EXCEPT !.cur_page_no = PageNo(page_no)]

\* variant: the page number is set before the page is loaded
switch_to_SetsPageNoFirst(self, page_no, new) ==
    LET s1 == IF self.cur_page_no # None
              THEN save_page(self, self.cur_page_no[1])
              ELSE self
        s2 == IF s1.exc # NoExc THEN s1
              ELSE IF new
              THEN [s1 EXCEPT !.cur_page_data = <<>>,
                              !.cur_page_no = PageNo(page_no),
                              !.log = Append(@, <<"new", page_no>>)]
              ELSE load_page([s1 EXCEPT !.cur_page_no = PageNo(page_no)],
                             page_no)
    IN s2

switch_to(self, page_no, new) ==
    LET s1 == IF self.cur_page_no # None
              THEN save_page(self, self.cur_page_no[1])
              ELSE self
        s2 == IF s1.exc # NoExc THEN s1
              ELSE IF new THEN [s1 EXCEPT !.cur_page_data = <<>>,
                                          !.log = Append(@, <<"new", page_no>>)]
              ELSE load_page(s1, page_no)
    IN IF s2.exc # NoExc THEN s2
       ELSE [s2 EXCEPT !.cur_page_no = PageNo(page_no)]

\* variant: the range test is `index < self._cur_len` only
local_index_NoLowerBound(self, index) ==
    LET idx == IF index < 0 THEN self.cur_len + index ELSE index IN
    IF idx < self.cur_len
    THEN LET page_no == idx \div page_size
             li == idx % page_size
             s == IF PageNo(page_no) # self.cur_page_no
                  THEN switch_to(self, page_no, FALSE)
                  ELSE self
         IN IF s.exc # NoExc THEN s ELSE Return(s, li)
    ELSE Raise(self, "IndexError")

\* variant: the range test is `0 <= index` only
local_index_NoUpperBound(self, index) ==
    LET idx == IF index < 0 THEN self.cur_len + index ELSE index IN
    IF 0 <= idx
    THEN LET page_no == idx \div page_size
             li == idx % page_size
             s == IF PageNo(page_no) # self.cur_page_no
                  THEN switch_to(self, page_no, FALSE)
                  ELSE self
         IN IF s.exc # NoExc THEN s ELSE Return(s, li)
    ELSE Raise(self, "IndexError")

local_index(self, index) ==
    LET idx == IF index < 0 THEN self.cur_len + index ELSE index IN
    IF 0 <= idx /\ idx < self.cur_len
    THEN LET page_no == idx \div page_size
             li == idx % page_size
             s == IF PageNo(page_no) # self.cur_page_no
                  THEN switch_to(self, page_no, FALSE)
                  ELSE self
         IN IF s.exc # NoExc THEN s ELSE Return(s, li)
    ELSE Raise(self, "IndexError")

\* ---- public methods ----

getitem(self, index) ==
    LET s == local_index(self, index) IN
    IF s.exc # NoExc THEN s
    ELSE IF s.ret + 1 > Len(s.cur_page_data) THEN Raise(s, "IndexError")
    ELSE Return(s, s.cur_page_data[s.ret + 1])

\* variant: the value is written to the resident page, whichever page it is
setitem_NoSwitch(self, index, value) ==
    LET idx == IF index < 0 THEN self.cur_len + index ELSE index
        li == idx % page_size IN
    IF ~(0 <= idx /\ idx < self.cur_len) THEN Raise(self, "IndexError")
    ELSE IF li + 1 > Len(self.cur_page_data) THEN Raise(self, "IndexError")
    ELSE [self EXCEPT !.cur_page_data[li + 1] = value]

setitem(self, index, value) ==
    LET s == local_index(self, index) IN
    IF s.exc # NoExc THEN s
    ELSE IF s.ret + 1 > Len(s.cur_page_data) THEN Raise(s, "IndexError")
    ELSE [s EXCEPT !.cur_page_data[s.ret + 1] = value, !.ret = NoRet]

\* variant: every page switch of append starts a fresh page
append_AlwaysNew(self, value) ==
    LET page_no == self.cur_len \div page_size
        s == IF PageNo(page_no) # self.cur_page_no
             THEN switch_to(self, page_no, TRUE)
             ELSE self
    IN IF s.exc # NoExc THEN s
       ELSE [s EXCEPT !.cur_page_data = Append(s.cur_page_data, value),
                      !.cur_len = s.cur_len + 1]

\* variant: append never leaves the current page once one is resident
append_NoSwitch(self, value) ==
    LET page_no == self.cur_len \div page_size
        li == self.cur_len % page_size
        s == IF self.cur_page_no = None
             THEN switch_to(self, page_no, li = 0)
             ELSE self
    IN IF s.exc # NoExc THEN s
       ELSE [s EXCEPT !.cur_page_data = Append(s.cur_page_data, value),
                      !.cur_len = s.cur_len + 1]

\* variant: a page that starts is loaded when a file of its number exists
append_LoadsIfFile(self, value) ==
    LET page_no == self.cur_len \div page_size
        li == self.cur_len % page_size
        s == IF PageNo(page_no) # self.cur_page_no
             THEN switch_to(self, page_no,
                            li = 0 /\ page_no \notin DOMAIN self.files)
             ELSE self
    IN IF s.exc # NoExc THEN s
       ELSE [s EXCEPT !.cur_page_data = Append(s.cur_page_data, value),
                      !.cur_len = s.cur_len + 1]

append(self, value) ==
    LET page_no == self.cur_len \div page_size
        li == self.cur_len % page_size
        s == IF PageNo(page_no) # self.cur_page_no
             THEN switch_to(self, page_no, li = 0)
             ELSE self
    IN IF s.exc # NoExc THEN s
       ELSE [s EXCEPT !.cur_page_data = Append(s.cur_page_data, value),
                      !.cur_len = s.cur_len + 1]

\* variant: the loop stops one item early
RECURSIVE extend_SkipLast(_, _)
extend_SkipLast(self, values) ==
    IF Len(values) <= 1 THEN self
    ELSE LET s == append(self, Head(values)) IN
         IF s.exc # NoExc THEN s ELSE extend_SkipLast(s, Tail(values))

\* MutableSequence.extend: for v in values: self.append(v)
RECURSIVE extend(_, _)
extend(self, values) ==
    IF values = <<>> THEN self
    ELSE LET s == append(self, Head(values)) IN
         IF s.exc # NoExc THEN s ELSE extend(s, Tail(values))

\* variant: the last item of the resident page is popped, whichever page it is
pop_NoSwitch(self, index) ==
    IF index # -1 THEN Raise(self, "NotImplementedError")
    ELSE IF self.cur_len = 0 \/ self.cur_page_data = <<>>
    THEN Raise(self, "IndexError")
    ELSE [self EXCEPT
            !.cur_page_data = SubSeq(self.cur_page_data, 1,
                                     Len(self.cur_page_data) - 1),
            !.cur_len = self.cur_len - 1,
            !.ret = self.cur_page_data[Len(self.cur_page_data)]]

\* variant: an index equal to the last position is accepted as well
pop_AcceptsLast(self, index) ==
    IF index # -1 /\ index # self.cur_len - 1
    THEN Raise(self, "NotImplementedError")
    ELSE LET s == local_index(self, -1) IN
         IF s.exc # NoExc THEN s
         ELSE IF s.ret + 1 > Len(s.cur_page_data) THEN Raise(s, "IndexError")
         ELSE [s EXCEPT !.cur_page_data = RemoveAt(s.cur_page_data, s.ret + 1),
                        !.cur_len = s.cur_len - 1,
                        !.ret = s.cur_page_data[s.ret + 1]]

\* variant: any index is accepted, as list.pop(index) does
pop_AnyIndex(self, index) ==
    LET s == local_index(self, index) IN
    IF s.exc # NoExc THEN s
    ELSE IF s.ret + 1 > Len(s.cur_page_data) THEN Raise(s, "IndexError")
    ELSE [s EXCEPT !.cur_page_data = RemoveAt(s.cur_page_data, s.ret + 1),
                   !.cur_len = s.cur_len - 1,
                   !.ret = s.cur_page_data[s.ret + 1]]

\* variant: the length is not decremented
pop_NoDecrement(self, index) ==
    IF index # -1 THEN Raise(self, "NotImplementedError")
    ELSE LET s == local_index(self, -1) IN
         IF s.exc # NoExc THEN s
         ELSE IF s.ret + 1 > Len(s.cur_page_data) THEN Raise(s, "IndexError")
         ELSE [s EXCEPT !.cur_page_data = RemoveAt(s.cur_page_data, s.ret + 1),
                        !.ret = s.cur_page_data[s.ret + 1]]

\* variant: popping the only item leaves no page resident
pop_ResetsWhenEmpty(self, index) ==
    IF index # -1 THEN Raise(self, "NotImplementedError")
    ELSE LET s == local_index(self, -1) IN
         IF s.exc # NoExc THEN s
         ELSE IF s.ret + 1 > Len(s.cur_page_data) THEN Raise(s, "IndexError")
         ELSE [s EXCEPT !.cur_page_data = RemoveAt(s.cur_page_data, s.ret + 1),
                        !.cur_len = s.cur_len - 1,
                        !.cur_page_no = IF s.cur_len = 1 THEN None ELSE @,
                        !.ret = s.cur_page_data[s.ret + 1]]

pop(self, index) ==
    IF index # -1 THEN Raise(self, "NotImplementedError")
    ELSE LET s == local_index(self, -1) IN
         IF s.exc # NoExc THEN s
         ELSE IF s.ret + 1 > Len(s.cur_page_data) THEN Raise(s, "IndexError")
         ELSE [s EXCEPT !.cur_page_data = RemoveAt(s.cur_page_data, s.ret + 1),
                        !.cur_len = s.cur_len - 1,
                        !.ret = s.cur_page_data[s.ret + 1]]

\* variant: `del seq[i]` is carried out when i is the last position
delitem_LastAllowed(self, index) ==
    IF self.cur_len > 0 /\ (index = -1 \/ index = self.cur_len - 1)
    THEN pop(self, -1)
    ELSE Raise(self, "NotImplementedError")

delitem(self, index) == Raise(self, "NotImplementedError")

insert(self, index, value) == Raise(self, "NotImplementedError")

reverse(self) == Raise(self, "NotImplementedError")

sort(self) == Raise(self, "NotImplementedError")

\* _local_index with a slice object: isinstance(index, slice)
local_index_slice(self, index) == Raise(self, "NotImplementedError")

\* seq[start:stop]
getitem_slice(self, index) ==
    LET s == local_index_slice(self, index) IN
    IF s.exc # NoExc THEN s ELSE Return(s, s.cur_page_data)

\* seq[start:stop] = values
setitem_slice(self, index, value) ==
    LET s == local_index_slice(self, index) IN
    IF s.exc # NoExc THEN s ELSE [s EXCEPT !.cur_page_data = value]

\* variant: clear() also removes the page files
clear_DeletesFiles(self) ==
    [self EXCEPT !.cur_page_data = <<>>, !.cur_page_no = None, !.cur_len = 0,
                 !.files = NoFiles]

\* variant: clear() leaves the length as it is
clear_KeepsLen(self) ==
    [self EXCEPT !.cur_page_data = <<>>, !.cur_page_no = None]

clear(self) ==
    [self EXCEPT !.cur_page_data = <<>>, !.cur_page_no = None, !.cur_len = 0]

\* variant: close() looks at self._dir itself, which makes the directory
close_TouchesDir(self) ==
    IF ~self.closed
    THEN LET s == dir(clear(self)) IN
         IF ~s.dir_exists THEN Raise(s, "OSError")
         ELSE [s EXCEPT !.files = NoFiles, !.dir_exists = FALSE,
                        !.closed = TRUE]
    ELSE self

close(self) ==
    IF ~self.closed
    THEN LET s == clear(self) IN
         IF filesystem_used(s)
         THEN IF ~s.dir_exists THEN Raise(s, "OSError")
              ELSE [s EXCEPT !.files = NoFiles, !.dir_exists = FALSE,
                             !.closed = TRUE]
         ELSE [s EXCEPT !.closed = TRUE]
    ELSE self

\* Sequence.__iter__: v = self[i]; yield v; i += 1 -- until IndexError
RECURSIVE iter_from(_, _, _)
iter_from(self, i, acc) ==
    LET s == getitem(self, i) IN
    IF s.exc = "IndexError" THEN [s EXCEPT !.exc = NoExc, !.ret = acc]
    ELSE IF s.exc # NoExc THEN s
    ELSE iter_from(s, i + 1, Append(acc, s.ret))

iterate(self) == iter_from(self, 0, <<>>)

\* MutableSequence.extend(values) with values being the sequence itself:
\* `for v in values: self.append(v)` reads self[i] from the live sequence
\* before each append.  The unfolding is followed until the length exceeds
\* limit; the call is then still in its loop, which ret = "running" marks
RECURSIVE extend_live_from(_, _, _)
extend_live_from(self, i, limit) ==
    LET g == getitem(self, i) IN
    IF g.exc = "IndexError" THEN [g EXCEPT !.exc = NoExc, !.ret = NoRet]
    ELSE IF g.exc # NoExc THEN g
    ELSE LET s == append(g, g.ret) IN
         IF s.exc # NoExc THEN s
         ELSE IF s.cur_len > limit THEN [s EXCEPT !.ret = "running"]
         ELSE extend_live_from(s, i + 1, limit)

extend_self(self) == extend_live_from(self, 0, 2 * self.cur_len)

\* __reversed__: for i in xrange(len(self) - 1, -1, -1): yield self[i]
RECURSIVE reversed_from(_, _, _)
reversed_from(self, i, acc) ==
    IF i < 0 THEN Return(self, acc)
    ELSE LET s == getitem(self, i) IN
         IF s.exc # NoExc THEN s
         ELSE reversed_from(s, i - 1, Append(acc, s.ret))

\* variant: the countdown starts one position too low
reversed_SkipLast(self) == reversed_from(self, self.cur_len - 2, <<>>)

\* __reversed__: the generator run to its end, acc being what it yielded
reversed(self) == reversed_from(self, self.cur_len - 1, <<>>)

\* Sequence.index: for i, v in enumerate(self): if v == value: return i
\* -- and ValueError when the iteration ends; s is the outcome of self[i]
RECURSIVE index_from(_, _, _)
RECURSIVE index_step(_, _, _)
index_step(s, value, i) ==
    IF s.exc = "IndexError" THEN Raise(s, "ValueError")
    ELSE IF s.exc # NoExc THEN s
    ELSE IF s.ret = value THEN Return(s, i)
    ELSE index_from(s, value, i + 1)

index_from(self, value, i) == index_step(getitem(self, i), value, i)

index_of(self, value) == index_from(self, value, 0)

\* del self[i], i being the outcome s of self.index(value)
remove_at(s) == IF s.exc # NoExc THEN s ELSE delitem(s, s.ret)

\* MutableSequence.remove: del self[self.index(value)]
remove(self, value) == remove_at(index_of(self, value))

\* variant: the temporary directory is made by the constructor
EmptySelf_WithDir ==
    [cur_len |-> 0, cur_page_no |-> None, cur_page_data |-> <<>>,
     closed |-> FALSE, has_dir |-> TRUE, dir_exists |-> TRUE,
     files |-> NoFiles, exc |-> NoExc, ret |-> NoRet, log |-> <<>>,
     fault |-> "none"]

\* the fields set by __init__ (page_size is already bound)
EmptySelf ==
    [cur_len |-> 0, cur_page_no |-> None, cur_page_data |-> <<>>,
     closed |-> FALSE, has_dir |-> FALSE, dir_exists |-> FALSE,
     files |-> NoFiles, exc |-> NoExc, ret |-> NoRet, log |-> <<>>,
     fault |-> "none"]

init(iterable) == extend(EmptySelf, iterable)

enter(self) == Return(self, "self")

\* variant: `return True` after close(), which suppresses the exception
exit_Suppresses(self, exc_type) == Return(close(self), "True")

exit(self, exc_type) == close(self)

\* ---- the state machine ----

Store(s) ==
    /\ cur_len' = s.cur_len
    /\ cur_page_no' = s.cur_page_no
    /\ cur_page_data' = s.cur_page_data
    /\ closed' = s.closed
    /\ has_dir' = s.has_dir
    /\ dir_exists' = s.dir_exists
    /\ files' = s.files
    /\ max_len' = Max(max_len, s.cur_len)
    /\ UNCHANGED page_size

\* a method called on the instance outside of the with-statement protocol
Called == scope' = IF scope = "new" THEN "plain" ELSE scope

Init ==
    \E ps \in 1..MaxPageSize, iterable \in SeqsUpTo(MaxExtend) :
        /\ page_size = ps
        /\ LET s == init(iterable) IN
            /\ cur_len = s.cur_len
            /\ cur_page_no = s.cur_page_no
            /\ cur_page_data = s.cur_page_data
            /\ closed = s.closed
            /\ has_dir = s.has_dir
            /\ dir_exists = s.dir_exists
            /\ files = s.files
            /\ max_len = s.cur_len
        /\ ref = iterable
        /\ scope = "new"

Indices == (0 - MaxLen - 1)..MaxLen

\* indices for the calls that are refused or accepted whatever the length:
\* the last item, the first position, a position past the end
FewIndices == {-1, 0, MaxLen}

GetItem ==
    \E index \in Indices :
        LET s == getitem(Self, index) IN
        /\ Store(s)
        /\ Called
        /\ UNCHANGED ref

SetItem ==
    \E index \in Indices, value \in Items :
        LET s == setitem(Self, index, value)
            k == IF index < 0 THEN Len(ref) + index ELSE index IN
        /\ Store(s)
        /\ Called
        /\ ref' = IF s.exc = NoExc /\ k >= 0 /\ k < Len(ref)
                  THEN [ref EXCEPT ![k + 1] = value] ELSE ref

AppendItem ==
    \E value \in Items :
        /\ cur_len < MaxLen
        /\ LET s == append(Self, value) IN
            /\ Store(s)
            /\ ref' = IF s.exc = NoExc THEN Append(ref, value) ELSE ref
        /\ Called

Extend ==
    \E values \in SeqsUpTo(MaxExtend) :
        /\ cur_len + Len(values) <= MaxLen
        /\ LET s == extend(Self, values) IN
            /\ Store(s)
            /\ ref' = ref \o SubSeq(values, 1, s.cur_len - cur_len)
        /\ Called

Pop ==
    \E index \in FewIndices :
        LET s == pop(Self, index) IN
        /\ Store(s)
        /\ Called
        /\ ref' = IF s.exc = NoExc THEN SubSeq(ref, 1, Len(ref) - 1) ELSE ref

Slices == [start : {0, 1}, stop : {1, 2}]

DelItem ==
    \E index \in FewIndices :
        LET s == delitem(Self, index) IN
        /\ Store(s)
        /\ Called
        /\ UNCHANGED ref

Insert ==
    \E index \in FewIndices, value \in Items :
        LET s == insert(Self, index, value) IN
        /\ Store(s)
        /\ Called
        /\ UNCHANGED ref

Reverse ==
    LET s == reverse(Self) IN
    /\ Store(s)
    /\ Called
    /\ UNCHANGED ref

Sort ==
    LET s == sort(Self) IN
    /\ Store(s)
    /\ Called
    /\ UNCHANGED ref

GetSlice ==
    \E index \in Slices :
        LET s == getitem_slice(Self, index) IN
        /\ Store(s)
        /\ Called
        /\ UNCHANGED ref

SetSlice ==
    \E index \in Slices, value \in SeqsUpTo(1) :
        LET s == setitem_slice(Self, index, value) IN
        /\ Store(s)
        /\ Called
        /\ UNCHANGED ref

Remove ==
    \E value \in Items :
        LET s == remove(Self, value) IN
        /\ Store(s)
        /\ Called
        /\ UNCHANGED ref

Clear ==
    LET s == clear(Self) IN
    /\ Store(s)
    /\ Called
    /\ ref' = <<>>

Close ==
    LET s == close(Self) IN
    /\ Store(s)
    /\ Called
    /\ ref' = IF closed THEN ref ELSE <<>>

Iterate ==
    LET s == iterate(Self) IN
    /\ Store(s)
    /\ Called
    /\ UNCHANGED ref

Reversed ==
    LET s == reversed(Self) IN
    /\ Store(s)
    /\ Called
    /\ UNCHANGED ref

\* with FilePagedSequence(...) as seq:
Enter ==
    /\ scope = "new"
    /\ LET s == enter(Self) IN Store(s)
    /\ scope' = "with"
    /\ UNCHANGED ref

\* the with-block is left, normally or by an exception
Exit ==
    \E exc_type \in {"None", "Exception"} :
        /\ scope = "with"
        /\ LET s == exit(Self, exc_type) IN Store(s)
        /\ scope' = "plain"
        /\ ref' = IF closed THEN ref ELSE <<>>

Next ==
    \/ GetItem
    \/ SetItem
    \/ AppendItem
    \/ Extend
    \/ Pop
    \/ DelItem
    \/ Insert
    \/ Reverse
    \/ Sort
    \/ GetSlice
    \/ SetSlice
    \/ Remove
    \/ Clear
    \/ Close
    \/ Iterate
    \/ Reversed
    \/ Enter
    \/ Exit

Spec == Init /\ [][Next]_vars

\* ---- properties ----

EffIndex(index, n) == IF index < 0 THEN n + index ELSE index

NumPages == (cur_len + page_size - 1) \div page_size

\* the items a plain list holds at the positions of page p
LogicalPage(p) ==
    SubSeq(ref, p * page_size + 1, Min(Len(ref), (p + 1) * page_size))

\* the resident page differs from its file, or has no file
ResidentDirty ==
    /\ cur_page_no # None
    /\ \/ cur_page_no[1] \notin DOMAIN files
       \/ files[cur_page_no[1]] # cur_page_data

\* C1: before close(), for every valid index k (-length <= k < length),
\* get(k) does not fail and returns the item a plain list subjected to the
\* same mutating calls holds at k, whatever was read before.
C1_GetMatchesList ==
    ~closed =>
        \A k \in (0 - Len(ref))..(Len(ref) - 1) :
            LET s == getitem(Self, k) IN
            /\ s.exc = NoExc
            /\ s.ret = ref[EffIndex(k, Len(ref)) + 1]

\* residency was moved off the tail page and the resident page was written
\* to; a get with a negative index now swaps pages and returns the right item
C1_Witness ==
    /\ ~closed
    /\ cur_len > page_size
    /\ cur_page_no # PageNo(NumPages - 1)
    /\ ResidentDirty
    /\ cur_page_no[1] \in DOMAIN files
    /\ LET s == getitem(Self, -1) IN
        /\ s.cur_page_no # cur_page_no
        /\ s.ret = ref[Len(ref)]

\* C2: before close(), length() is the plain list's length and forward
\* iteration yields exactly the plain list's items in order; the plain list
\* does not depend on page_size, so neither do length() and iterate().
C2_IterateMatchesList ==
    ~closed =>
        /\ cur_len = Len(ref)
        /\ LET s == iterate(Self) IN s.exc = NoExc /\ s.ret = ref

\* an iteration that starts on page 0 and swaps in a partial tail page
C2_Witness ==
    /\ ~closed
    /\ cur_len > page_size
    /\ cur_len % page_size # 0
    /\ cur_page_no = PageNo(0)
    /\ iterate(Self).cur_page_no = PageNo(NumPages - 1)
    /\ iterate(Self).ret = ref
    /\ Len(iterate(Self).ret) = cur_len

\* C3: before close(), every page 0..ceil(length/page_size)-1 other than the
\* resident one has a page file whose content is that page's current items.
C3_OtherPagesOnDisk ==
    ~closed =>
        \A p \in 0..(NumPages - 1) :
            PageNo(p) # cur_page_no =>
                /\ dir_exists
                /\ p \in DOMAIN files
                /\ files[p] = LogicalPage(p)

\* two pages on disk while page 0 is resident and differs from its file
C3_Witness ==
    /\ ~closed
    /\ cur_page_no = PageNo(0)
    /\ NumPages >= 3
    /\ ResidentDirty

\* C4: the resident page never holds more than page_size items.
C4_ResidentPageBounded == Len(cur_page_data) <= page_size

\* a full resident page of a sequence that is longer than one page
C4_Witness ==
    /\ Len(cur_page_data) = page_size
    /\ page_size > 1
    /\ cur_len > page_size

\* C5: as long as the length has never exceeded page_size, no directory was
\* made, _filesystem_used() is false and there is no page file.
C5_NoDiskWithinOnePage ==
    max_len <= page_size =>
        /\ ~filesystem_used(Self)
        /\ ~dir_exists
        /\ DOMAIN files = {}

\* a single page that was filled up and popped empty again, page 0 still resident
C5_Witness ==
    /\ max_len = page_size
    /\ page_size > 1
    /\ cur_len = 0
    /\ cur_page_no = PageNo(0)
    /\ ~filesystem_used(Self)

\* C6: before close(), the directory exists iff the sequence has ever had
\* more than one page; it comes into existence in the very step in which the
\* length first exceeds page_size, a step that writes a page file.
C6_DirIffSecondPage ==
    /\ [](~closed => (dir_exists <=> max_len > page_size))
    /\ [][(~dir_exists /\ dir_exists') =>
            /\ max_len <= page_size
            /\ max_len' > page_size
            /\ DOMAIN files' # {}]_vars

\* the directory is kept after the sequence shrank back to nothing
C6_Witness ==
    /\ ~closed
    /\ dir_exists
    /\ cur_len = 0
    /\ DOMAIN files # {}

\* C7: after close() returns, length() is 0, iteration yields nothing, no
\* page file is left and the directory does not exist.
C7_AfterClose ==
    LET s == close(Self) IN
    /\ s.exc = NoExc
    /\ s.cur_len = 0
    /\ iterate(s).ret = <<>>
    /\ DOMAIN s.files = {}
    /\ ~s.dir_exists

\* C8: a second close() right after a close() raises nothing and changes
\* nothing, and after each of the two calls the length is 0 and the directory
\* is absent.
C8_CloseTwice ==
    LET s1 == close(Self)
        s2 == close(s1) IN
    /\ s1.exc = NoExc /\ s2.exc = NoExc
    /\ s2 = s1
    /\ s1.cur_len = 0 /\ ~s1.dir_exists
    /\ s2.cur_len = 0 /\ ~s2.dir_exists

\* C9: when the with-block of a sequence constructed for it is left, normally
\* or by an exception, close() has run and the directory is absent.
C9_ExitRemovesDir ==
    scope = "with" =>
        \A exc_type \in {"None", "Exception"} :
            LET s == exit(Self, exc_type) IN
            /\ s.exc = NoExc
            /\ s.closed
            /\ ~s.dir_exists

\* C10: get(index) and set(index, value) raise IndexError whenever
\* index >= length or index < -length, also on an empty sequence.
C10_OutOfRangeIndexError ==
    \A index \in (0 - MaxLen - 2)..(MaxLen + 1) :
        (index >= cur_len \/ index < 0 - cur_len) =>
            /\ getitem(Self, index).exc = "IndexError"
            /\ \A value \in Items : setitem(Self, index, value).exc = "IndexError"

\* out-of-range gets and sets on a sequence of several pages whose resident
\* page is not the tail
C10_Witness ==
    /\ cur_len > page_size
    /\ cur_page_no = PageNo(0)
    /\ getitem(Self, cur_len).exc = "IndexError"
    /\ setitem(Self, 0 - cur_len - 1, "a").exc = "IndexError"

\* the state of the object, without the outcome of the call that produced it
Fields(s) == [s EXCEPT !.exc = NoExc, !.ret = NoRet, !.log = <<>>,
                       !.fault = "none"]

\* what forward iteration yields in the current state
Contents == iterate(Self).ret

\* C11: pop() (index omitted, i.e. -1) on a non-empty sequence returns the
\* item at position length-1, decrements the length by one and leaves the
\* items 0..length-2 as they were, whichever page is resident.
C11_PopReturnsLast ==
    cur_len > 0 =>
        LET s == pop(Self, -1) IN
        /\ s.exc = NoExc
        /\ s.ret = ref[Len(ref)]
        /\ s.cur_len = cur_len - 1
        /\ iterate(s).ret = SubSeq(ref, 1, Len(ref) - 1)

\* the tail page is not resident: pop swaps it in, and it held one item only
C11_Witness ==
    /\ cur_len > page_size
    /\ cur_len % page_size = 1
    /\ cur_page_no = PageNo(0)
    /\ ResidentDirty
    /\ LET s == pop(Self, -1) IN
        /\ s.cur_page_no = PageNo(NumPages - 1)
        /\ s.ret = ref[Len(ref)]
        /\ s.cur_page_data = <<>>

\* C12: pop() on an empty sequence raises IndexError, whether the sequence
\* was never populated, was emptied by pops or was cleared.
C12_PopEmptyIndexError ==
    cur_len = 0 => pop(Self, -1).exc = "IndexError"

\* emptied by pops: page 0 is still resident, page files are left on disk
C12_Witness ==
    /\ cur_len = 0
    /\ cur_page_no = PageNo(0)
    /\ DOMAIN files # {}
    /\ pop(Self, -1).exc = "IndexError"

\* C13 as claimed: on a non-empty sequence both pop(-1) and pop(length-1)
\* remove and return the last item and shrink the sequence by one.
C13_PopLastPositionAccepted ==
    cur_len > 0 =>
        \A index \in {-1, cur_len - 1} :
            LET s == pop(Self, index) IN
            /\ s.exc = NoExc
            /\ s.ret = ref[Len(ref)]
            /\ s.cur_len = cur_len - 1

\* C13 as amended: on a non-empty sequence pop(-1) removes and returns the
\* last item and shrinks the sequence by one, while pop(length-1) raises
\* NotImplementedError and changes nothing.
C13_PopOnlyMinusOne ==
    cur_len > 0 =>
        /\ LET s == pop(Self, -1) IN
            /\ s.exc = NoExc
            /\ s.ret = ref[Len(ref)]
            /\ s.cur_len = cur_len - 1
        /\ LET s == pop(Self, cur_len - 1) IN
            /\ s.exc = "NotImplementedError"
            /\ Fields(s) = Self

\* several pages, the tail page resident: pop(length-1) is refused
C13_Witness ==
    /\ cur_len > page_size
    /\ cur_page_no = PageNo(NumPages - 1)
    /\ pop(Self, cur_len - 1).exc = "NotImplementedError"
    /\ pop(Self, -1).ret = ref[Len(ref)]

\* C14: pop(index) with an index that is neither -1 nor length-1 raises
\* NotImplementedError and removes nothing.
C14_PopOtherIndexUnsupported ==
    \A index \in (0 - MaxLen - 2)..(MaxLen + 1) :
        (index # -1 /\ index # cur_len - 1) =>
            LET s == pop(Self, index) IN
            /\ s.exc = "NotImplementedError"
            /\ Fields(s) = Self

\* pop(0) and pop(-2) on a sequence whose page 0 is not resident
C14_Witness ==
    /\ cur_len > 2
    /\ cur_len > page_size
    /\ cur_page_no # PageNo(0)
    /\ pop(Self, 0).exc = "NotImplementedError"
    /\ pop(Self, -2).cur_page_no = cur_page_no

\* C15: del seq[i], insert(i, value), reverse(), sort() and slice get/set
\* raise NotImplementedError in every state and for every argument, and
\* leave the length, the contents, the resident page and the files as they
\* were.
C15_UnsupportedNeverPerformed ==
    /\ \A index \in (0 - MaxLen - 2)..(MaxLen + 1) :
        /\ delitem(Self, index).exc = "NotImplementedError"
        /\ Fields(delitem(Self, index)) = Self
        /\ \A value \in Items :
            /\ insert(Self, index, value).exc = "NotImplementedError"
            /\ Fields(insert(Self, index, value)) = Self
    /\ reverse(Self).exc = "NotImplementedError"
    /\ Fields(reverse(Self)) = Self
    /\ sort(Self).exc = "NotImplementedError"
    /\ Fields(sort(Self)) = Self
    /\ \A index \in Slices :
        /\ getitem_slice(Self, index).exc = "NotImplementedError"
        /\ Fields(getitem_slice(Self, index)) = Self
        /\ \A value \in SeqsUpTo(1) :
            /\ setitem_slice(Self, index, value).exc = "NotImplementedError"
            /\ Fields(setitem_slice(Self, index, value)) = Self

\* a sequence of several pages whose last item could be deleted or sliced
C15_Witness ==
    /\ cur_len > page_size
    /\ ResidentDirty
    /\ delitem(Self, cur_len - 1).exc = "NotImplementedError"
    /\ delitem(Self, -1).cur_len = cur_len
    /\ getitem_slice(Self, [start |-> 0, stop |-> 2]).exc = "NotImplementedError"
    /\ Contents = ref

\* C16: remove(value) raises NotImplementedError for every value, whether or
\* not the value is in the sequence.
C16_RemoveUnsupported ==
    \A value \in Items : remove(Self, value).exc = "NotImplementedError"

\* C17: before close(), append(X) immediately followed by pop() succeeds,
\* returns X and restores the length and what iteration yields, also when the
\* append starts a new page or the tail page was not resident.
C17_AppendPopSymmetry ==
    ~closed =>
        \A value \in Items :
            LET s1 == append(Self, value)
                s2 == pop(s1, -1) IN
            /\ s1.exc = NoExc
            /\ s1.cur_len = cur_len + 1
            /\ s2.exc = NoExc
            /\ s2.ret = value
            /\ s2.cur_len = cur_len
            /\ iterate(s2).ret = Contents

\* page 0 is resident, the tail page is full: the append saves page 0 and
\* starts a new page, the pop empties that page again
C17_Witness ==
    /\ ~closed
    /\ cur_len >= 2 * page_size
    /\ cur_len % page_size = 0
    /\ cur_page_no = PageNo(0)
    /\ ResidentDirty
    /\ LET s1 == append(Self, "b")
           s2 == pop(s1, -1) IN
        /\ s1.cur_page_no = PageNo(NumPages)
        /\ s2.ret = "b"
        /\ s2.cur_page_data = <<>>
        /\ iterate(s2).ret = ref

\* C18: after clear() the length is 0 and iteration yields nothing, and
\* clear() changes nothing on disk: the directory and every page file are as
\* before, with the same contents.
C18_ClearKeepsFiles ==
    LET s == clear(Self) IN
    /\ s.exc = NoExc
    /\ s.cur_len = 0
    /\ iterate(s).exc = NoExc
    /\ iterate(s).ret = <<>>
    /\ s.files = files
    /\ iterate(s).files = files
    /\ s.dir_exists = dir_exists
    /\ s.has_dir = has_dir

\* a sequence of several pages is cleared: its page files stay, and the
\* resident page, which differs from its file, is dropped without a write
C18_Witness ==
    /\ ~closed
    /\ cur_len > page_size
    /\ ResidentDirty
    /\ DOMAIN files # {}
    /\ clear(Self).files = files
    /\ clear(Self).cur_page_no = None

\* C19: set(index, value) with a valid index does not fail, keeps the
\* length, and changes exactly the position index denotes (length + index
\* when negative, with the same outcome as the set through the position
\* itself): get(index) returns value right away and after the page swaps of
\* a full iteration, and every other position keeps its item.
C19_SetOverwritesOnePosition ==
    LET before == Contents IN
    \A k \in 0..(cur_len - 1), value \in Items :
        LET s == setitem(Self, k, value)
            after == iterate(s) IN
        /\ s.exc = NoExc
        /\ s.cur_len = cur_len
        /\ setitem(Self, k - cur_len, value) = s
        /\ getitem(s, k).ret = value
        /\ getitem(s, k - cur_len).ret = value
        /\ after.ret = [before EXCEPT ![k + 1] = value]
        /\ getitem(after, k - cur_len).ret = value

\* a set through a negative index that has to swap the tail page in and
\* changes the item there
C19_Witness ==
    /\ cur_len > page_size
    /\ cur_page_no = PageNo(0)
    /\ ref[Len(ref)] = "a"
    /\ LET s == setitem(Self, -1, "b") IN
        /\ s.cur_page_no = PageNo(NumPages - 1)
        /\ iterate(s).ret = [ref EXCEPT ![Len(ref)] = "b"]

\* C20: extend(values) appends the items in order: unless a page write
\* fails, the length grows by the number of items and iteration yields the
\* old contents followed by the items; before close() it never fails.  A
\* sequence constructed from items holds exactly these items, and a sequence
\* constructed empty and extended with items is in the same state.
C20_ExtendAppendsInOrder ==
    /\ LET before == Contents IN
       \A values \in SeqsUpTo(MaxExtend) :
        LET s == extend(Self, values) IN
        /\ ~closed => s.exc = NoExc
        /\ s.exc = NoExc =>
            /\ s.cur_len = cur_len + Len(values)
            /\ iterate(s).ret = before \o values
    /\ scope = "new" =>
        /\ cur_len = Len(ref)
        /\ Contents = ref
        /\ ref = <<>> =>
            \A values \in SeqsUpTo(MaxExtend) :
                Fields(extend(Self, values)) = Fields(init(values))

\* the partial tail page is not resident: extend swaps it in, fills it and
\* starts the next page
C20_Witness ==
    /\ ~closed
    /\ cur_len > page_size
    /\ cur_len % page_size # 0
    /\ cur_page_no = PageNo(0)
    /\ LET s == extend(Self, <<"a", "b">>) IN
        /\ s.cur_page_no = PageNo(NumPages)
        /\ s.cur_len = cur_len + 2
        /\ iterate(s).ret = ref \o <<"a", "b">>

\* a sequence read backwards
Rev(s) == [k \in 1..Len(s) |-> s[Len(s) + 1 - k]]

\* C21: reversed iteration does not fail and yields exactly length items,
\* the items of forward iteration from the last to the first, whichever page
\* is resident when it starts; run again, from the state the first run or a
\* forward iteration left, it yields the same items.
C21_ReversedIsReverse ==
    LET r == reversed(Self)
        f == iterate(Self) IN
    /\ r.exc = NoExc
    /\ Len(r.ret) = cur_len
    /\ r.ret = Rev(f.ret)
    /\ reversed(r).ret = r.ret
    /\ reversed(f).ret = r.ret
    /\ Fields(reversed(r)) = Fields(r)

\* three pages with the middle one resident: the run swaps to the tail page
\* first and ends on page 0
C21_Witness ==
    /\ NumPages >= 3
    /\ cur_page_no = PageNo(1)
    /\ ref[1] # ref[Len(ref)]
    /\ LET r == reversed(Self) IN
        /\ r.ret = Rev(ref)
        /\ r.cur_page_no = PageNo(0)

\* a page event that makes another page the resident one
IsSwap(e) == e[1] \in {"load", "new"}

\* the page resident just before event i of a call's log, r0 being the page
\* resident when the call started
RECURSIVE ResidentBefore(_, _, _)
ResidentBefore(log, i, r0) ==
    IF i = 1 THEN r0
    ELSE IF IsSwap(log[i - 1]) THEN PageNo(log[i - 1][2])
    ELSE ResidentBefore(log, i - 1, r0)

\* every swap of the log that had a resident page to evict comes right after
\* the dump of that page
SavesOutgoing(log, r0) ==
    \A i \in 1..Len(log) :
        (IsSwap(log[i]) /\ ResidentBefore(log, i, r0) # None) =>
            /\ i > 1
            /\ log[i - 1] = <<"dump", ResidentBefore(log, i, r0)[1]>>

\* C22: every page swap made while a page is resident is preceded by the
\* dump of the outgoing page to the file of its number: a get that swaps
\* does exactly one dump and one load, and leaves the outgoing page's items
\* in its file, whether or not the page differed from its file; the same
\* holds for every swap of an iteration, a set, an append and a pop.
C22_SwapSavesOutgoing ==
    /\ \A k \in (0 - cur_len)..(cur_len - 1) :
        LET s == getitem(Self, k) IN
        (cur_page_no # None /\ s.cur_page_no # cur_page_no) =>
            /\ s.log = << <<"dump", cur_page_no[1]>>,
                          <<"load", EffIndex(k, cur_len) \div page_size>> >>
            /\ s.files[cur_page_no[1]] = cur_page_data
    /\ SavesOutgoing(iterate(Self).log, cur_page_no)
    /\ SavesOutgoing(reversed(Self).log, cur_page_no)
    /\ SavesOutgoing(pop(Self, -1).log, cur_page_no)
    /\ \A value \in Items :
        /\ SavesOutgoing(append(Self, value).log, cur_page_no)
        /\ \A k \in 0..(cur_len - 1) :
            SavesOutgoing(setitem(Self, k, value).log, cur_page_no)

\* the resident page equals its file, and a get of another page rewrites it
C22_Witness ==
    /\ cur_page_no # None
    /\ cur_len > page_size
    /\ ~ResidentDirty
    /\ \E k \in 0..(cur_len - 1) :
        LET s == getitem(Self, k) IN
        /\ s.cur_page_no # cur_page_no
        /\ s.log[1] = <<"dump", cur_page_no[1]>>

\* C23 as claimed: whenever a page is resident and its number is not the
\* last page number ceil(length/page_size)-1, it holds exactly page_size
\* items.
C23_NonLastResidentFull ==
    (cur_page_no # None /\ cur_page_no[1] # NumPages - 1) =>
        Len(cur_page_data) = page_size

\* C23 as amended: a resident page below the last page holds exactly
\* page_size items; a resident page that is not the last one and not below
\* it is the page right after the last one, left empty by the pop that
\* removed its only item.
C23_ResidentBelowLastFull ==
    cur_page_no # None =>
        /\ cur_page_no[1] < NumPages - 1 => Len(cur_page_data) = page_size
        /\ cur_page_no[1] > NumPages - 1 =>
            /\ cur_page_no[1] = NumPages
            /\ cur_page_data = <<>>
            /\ cur_len = NumPages * page_size

\* a pop emptied the tail page of a sequence that still has items: the
\* resident page is the one after the last page
C23_Witness ==
    /\ cur_len > 0
    /\ cur_page_no = PageNo(NumPages)
    /\ cur_page_data = <<>>
    /\ page_size > 1

PagesOf(n) == (n + page_size - 1) \div page_size

\* the state s of a sequence built by appends only: a page file for every
\* page but the last, the last page resident, nothing ever read back
C25_BuiltByAppends(s) ==
    /\ s.exc = NoExc
    /\ DOMAIN s.files = 0..(PagesOf(s.cur_len) - 2)
    /\ s.cur_len > 0 => s.cur_page_no = PageNo(PagesOf(s.cur_len) - 1)
    /\ \A i \in 1..Len(s.log) : s.log[i][1] # "load"

\* C25: a sequence built only by the appends of its construction and of
\* later extend calls, n items in all, has exactly the page files of the
\* pages 0..ceil(n/page_size)-2: every page but the last, which is resident
\* and has no file yet.
C25_FilesAfterAppends ==
    scope = "new" =>
        /\ C25_BuiltByAppends(Self)
        /\ \A v1 \in SeqsUpTo(MaxExtend) :
            /\ C25_BuiltByAppends(init(v1))
            /\ C25_BuiltByAppends(extend(Self, v1))
            /\ \A v2 \in SeqsUpTo(MaxExtend) :
                C25_BuiltByAppends(extend(extend(Self, v1), v2))

\* one item more than a page: exactly the file of page 0 exists, and two
\* more items add the files of the pages they complete
C25_Witness ==
    /\ scope = "new"
    /\ cur_len = page_size + 1
    /\ DOMAIN files = {0}
    /\ DOMAIN extend(Self, <<"a", "b">>).files = 0..(PagesOf(cur_len + 2) - 2)
    /\ DOMAIN extend(Self, <<"a", "b">>).files # {0}

\* no page file is read during the call that ended in s
NoLoad(s) == \A i \in 1..Len(s.log) : s.log[i][1] # "load"

\* C26: an append at a length that is a multiple of page_size, the page of
\* that number not being resident, starts the page empty and reads no file,
\* also when a file of that number is on disk: unless the dump of the
\* outgoing page fails, the resident page is then that page and holds the
\* appended item only; before close() the append does not fail.
C26_NewPageNotLoaded ==
    (cur_len % page_size = 0 /\ cur_page_no # PageNo(cur_len \div page_size)) =>
        \A value \in Items :
            LET s == append(Self, value) IN
            /\ NoLoad(s)
            /\ ~closed => s.exc = NoExc
            /\ s.exc = NoExc =>
                /\ s.log[Len(s.log)] = <<"new", cur_len \div page_size>>
                /\ s.cur_page_no = PageNo(cur_len \div page_size)
                /\ s.cur_page_data = <<value>>
                /\ s.cur_len = cur_len + 1

\* a file of the page that starts is on disk and holds another item
C26_Witness ==
    /\ cur_len % page_size = 0
    /\ cur_page_no # PageNo(cur_len \div page_size)
    /\ (cur_len \div page_size) \in DOMAIN files
    /\ files[cur_len \div page_size] = <<"b">>
    /\ append(Self, "a").cur_page_data = <<"a">>

\* the state s after append(value) to a partial tail page that was not
\* resident, before being the contents before the call
C27_Holds(s, value, before) ==
    /\ s.exc = NoExc
    /\ s.log = << <<"dump", cur_page_no[1]>>,
                  <<"load", cur_len \div page_size>> >>
    /\ s.files[cur_page_no[1]] = cur_page_data
    /\ s.cur_page_no = PageNo(cur_len \div page_size)
    /\ s.cur_page_data =
        Append(SubSeq(before, (cur_len \div page_size) * page_size + 1, cur_len),
               value)
    /\ s.cur_len = cur_len + 1
    /\ getitem(s, cur_len).ret = value
    /\ iterate(s).ret = Append(before, value)

\* C27: an append made while the tail page is partly filled and another
\* page is resident dumps the resident page, then loads the tail page from
\* its file and appends to it: the items of the tail page are kept and the
\* new item is at position length.
C27_AppendToSwappedOutTail ==
    (cur_len % page_size # 0 /\ cur_page_no # PageNo(cur_len \div page_size)) =>
        /\ cur_page_no # None
        /\ \A value \in Items : C27_Holds(append(Self, value), value, Contents)

\* page 0 is resident and was written to since it was loaded
C27_Witness ==
    /\ cur_len % page_size # 0
    /\ cur_page_no = PageNo(0)
    /\ cur_len > page_size
    /\ ResidentDirty
    /\ append(Self, "b").cur_page_data = <<ref[Len(ref)], "b">>

\* every load of the log reads the file of a page that is not resident
LoadsNonResident(log, r0) ==
    \A i \in 1..Len(log) :
        log[i][1] = "load" => PageNo(log[i][2]) # ResidentBefore(log, i, r0)

\* the state s after get(k): the item and, when a page was loaded, the
\* whole page are what a plain list holds since the last clear()
C28_FreshGet(s, k) ==
    /\ s.exc = NoExc
    /\ s.ret = ref[EffIndex(k, Len(ref)) + 1]
    /\ LoadsNonResident(s.log, cur_page_no)
    /\ ~NoLoad(s) =>
        /\ s.cur_page_data = LogicalPage(EffIndex(k, Len(ref)) \div page_size)
        /\ s.cur_page_data = files[EffIndex(k, Len(ref)) \div page_size]

\* the state s after an iteration
C28_FreshIteration(s) ==
    /\ s.exc = NoExc
    /\ s.ret = ref
    /\ LoadsNonResident(s.log, cur_page_no)

\* C28: a page file is loaded only while its page is not resident, and what
\* is loaded is the page as it was when it was last dumped, which is the
\* page's current content: every get and every iteration returns the items
\* a plain list holds that was emptied by each clear(), never an item that
\* was stored only before the clear(); the loads of a set, an append and a
\* pop read files of non-resident pages too.
C28_LoadsAreFresh ==
    /\ cur_len = Len(ref)
    /\ \A k \in (0 - cur_len)..(cur_len - 1) : C28_FreshGet(getitem(Self, k), k)
    /\ C28_FreshIteration(iterate(Self))
    /\ LoadsNonResident(pop(Self, -1).log, cur_page_no)
    /\ \A value \in Items :
        /\ LoadsNonResident(append(Self, value).log, cur_page_no)
        /\ \A k \in 0..(cur_len - 1) :
            LoadsNonResident(setitem(Self, k, value).log, cur_page_no)

\* the sequence was cleared and filled again past one page: a file from
\* before the clear() is still on disk beyond the last page, the resident
\* page differs from its file, and an iteration loads page files
C28_Witness ==
    /\ ~closed
    /\ cur_len > page_size
    /\ cur_len < max_len
    /\ \E p \in DOMAIN files : p >= NumPages /\ files[p] # <<>>
    /\ ResidentDirty
    /\ ~NoLoad(iterate(Self))

\* C29: a step that removes a page file is a step in which close() closes
\* the sequence (called directly or by the exit of the with-block), and it
\* removes all of them; no get, set, append, extend, pop, clear, iteration
\* or refused call makes the set of page-file names lose a name.
C29_FilesOnlyRemovedByClose ==
    [][(\E p \in DOMAIN files : p \notin DOMAIN files') =>
            /\ ~closed
            /\ closed'
            /\ DOMAIN files' = {}]_vars

\* pops made the sequence shorter than the pages on disk: files of pages
\* past the resident, emptied tail page are still there
C29_Witness ==
    /\ ~closed
    /\ cur_len > 0
    /\ cur_page_no = PageNo(NumPages)
    /\ \E p \in DOMAIN files : p > NumPages

\* a call that ended in s with IndexError or NotImplementedError swapped no
\* page, touched no file and left every field as it was
FailedUntouched(s) ==
    s.exc \in {"IndexError", "NotImplementedError"} =>
        /\ s.log = <<>>
        /\ Fields(s) = Self

\* the calls C30 lists: get, set, pop, slice access, delete, insert,
\* reverse, sort
ListedFailuresUntouched ==
    /\ \A index \in (0 - MaxLen - 2)..(MaxLen + 1) :
        /\ FailedUntouched(getitem(Self, index))
        /\ FailedUntouched(pop(Self, index))
        /\ FailedUntouched(delitem(Self, index))
        /\ \A value \in Items :
            /\ FailedUntouched(setitem(Self, index, value))
            /\ FailedUntouched(insert(Self, index, value))
    /\ \A index \in Slices :
        /\ FailedUntouched(getitem_slice(Self, index))
        /\ \A value \in SeqsUpTo(1) :
            FailedUntouched(setitem_slice(Self, index, value))
    /\ FailedUntouched(reverse(Self))
    /\ FailedUntouched(sort(Self))

Faulty(fault) == [Self EXCEPT !.fault = fault]

Faults == {"write", "read"}

\* the call that ended in s met a failing page file and changed nothing in
\* memory: the error is raised, the length, the resident page number and
\* the resident page are as before, and the contents read afterwards, the
\* store working again, are the contents before the call
FailedSwapUnchanged(s, before) ==
    s.exc = "IOError" =>
        /\ s.ret = NoRet
        /\ s.cur_len = cur_len
        /\ s.cur_page_no = cur_page_no
        /\ s.cur_page_data = cur_page_data
        /\ s.closed = closed
        /\ iterate(Fields(s)).ret = before

\* a call that ended in s without an error, the store failing in the way
\* fault says, opened no page file in that way
NoFaultMet(s, fault) ==
    s.exc = NoExc =>
        \A i \in 1..Len(s.log) :
            /\ fault = "write" => s.log[i][1] # "dump"
            /\ fault = "read" => s.log[i][1] # "load"

\* C31: a get, set, append or pop whose page swap meets a page file that
\* cannot be written or read ends with that error and leaves the length,
\* the resident page number and the resident page as they were; no item is
\* appended, overwritten or removed.  The same holds for the swap that
\* fails because close() has removed the directory.
C31_FailedSwapChangesNothing ==
    LET before == Contents IN
    \A fault \in Faults \cup {"none"} :
        /\ FailedSwapUnchanged(pop(Faulty(fault), -1), before)
        /\ NoFaultMet(pop(Faulty(fault), -1), fault)
        /\ \A value \in Items :
            /\ FailedSwapUnchanged(append(Faulty(fault), value), before)
            /\ NoFaultMet(append(Faulty(fault), value), fault)
        /\ \A k \in 0..(cur_len - 1) :
            /\ FailedSwapUnchanged(getitem(Faulty(fault), k), before)
            /\ NoFaultMet(getitem(Faulty(fault), k), fault)
            /\ \A value \in Items :
                FailedSwapUnchanged(setitem(Faulty(fault), k, value), before)

\* the sequence was closed after it had spilled and was filled again up to
\* one page: the append that starts the next page cannot dump the resident
\* page into the removed directory
C31_Witness ==
    /\ closed
    /\ filesystem_used(Self)
    /\ ~dir_exists
    /\ cur_len = page_size
    /\ cur_page_no = PageNo(0)
    /\ LET s == append(Self, "a") IN
        /\ s.exc = "IOError"
        /\ s.log = <<>>
        /\ s.cur_len = cur_len
        /\ s.cur_page_data = cur_page_data

\* C32: after close() returns the directory does not exist, whatever was
\* called before, a close() followed by further use included.
C32_NoDirAfterClose ==
    LET s == close(Self) IN
    s.exc = NoExc => ~s.dir_exists

\* C33: close() on a sequence that never used the filesystem does nothing
\* on disk: no directory is made, _filesystem_used() is still false, no
\* file is touched, and the call does not fail; the sequence is then empty
\* and closed.
C33_CloseWithoutDisk ==
    ~filesystem_used(Self) =>
        LET s == close(Self) IN
        /\ s.exc = NoExc
        /\ ~filesystem_used(s)
        /\ ~s.dir_exists
        /\ s.files = NoFiles
        /\ s.log = <<>>
        /\ ~closed => (s.closed /\ s.cur_len = 0 /\ s.cur_page_no = None)

\* a full single page that was never written to disk, about to be closed
C33_Witness ==
    /\ ~filesystem_used(Self)
    /\ ~closed
    /\ cur_len = page_size
    /\ page_size > 1
    /\ close(Self).closed
    /\ ~filesystem_used(close(Self))

\* the pages loaded during the call that ended in s, in the order of loading
LoadedPages(s) ==
    [i \in 1..Len(SelectSeq(s.log, LAMBDA e : e[1] = "load")) |->
        SelectSeq(s.log, LAMBDA e : e[1] = "load")[i][2]]

\* C34: a forward iteration ends without an error after exactly length
\* items; the read past the last item raises IndexError with no page swap,
\* so the iteration ends on the last page and has loaded each page at most
\* once, in ascending order; the length is unchanged and a further
\* iteration yields the same items.
C34_IterationEnds ==
    LET s == iterate(Self) IN
    /\ s.exc = NoExc
    /\ Len(s.ret) = cur_len
    /\ s.cur_len = cur_len
    /\ getitem(Self, cur_len).exc = "IndexError"
    /\ getitem(s, cur_len).exc = "IndexError"
    /\ getitem(s, cur_len).log = s.log
    /\ cur_len > 0 => s.cur_page_no = PageNo(NumPages - 1)
    /\ \A i \in 1..Len(LoadedPages(s)) :
        /\ LoadedPages(s)[i] < NumPages
        /\ i > 1 => LoadedPages(s)[i - 1] < LoadedPages(s)[i]
    /\ iterate(s).ret = s.ret
    /\ iterate(s).cur_len = cur_len

\* the last page is full and a file of the page after it is on disk: the
\* read at index length is refused and that file is not loaded
C34_Witness ==
    /\ cur_len > page_size
    /\ cur_len % page_size = 0
    /\ NumPages \in DOMAIN files
    /\ cur_page_no = PageNo(0)
    /\ Len(iterate(Self).ret) = cur_len
    /\ iterate(Self).cur_page_no = PageNo(NumPages - 1)

\* C35: extending a non-empty open sequence of length n by itself ends
\* without an error with length 2n.
C35_SelfExtendDoubles ==
    (cur_len > 0 /\ ~closed) =>
        LET s == extend_self(Self) IN
        /\ s.exc = NoExc
        /\ s.ret # "running"
        /\ s.cur_len = 2 * cur_len

\* the values a with statement takes as "do not suppress the exception"
Falsy(v) == v = NoRet

\* C36: __enter__() returns the sequence itself and changes no attribute,
\* directory or file; __exit__() raises nothing and returns None (falsy:
\* an exception of the block is not suppressed), whether the block raised
\* or not, and leaves the state that close() leaves, closed.
C36_ScopeCalls ==
    /\ LET e == enter(Self) IN
        /\ e.exc = NoExc
        /\ e.ret = "self"
        /\ e.log = <<>>
        /\ Fields(e) = Fields(Self)
    /\ \A exc_type \in {"None", "Exception"} :
        LET x == exit(Self, exc_type) IN
        /\ x.exc = NoExc
        /\ Falsy(x.ret)
        /\ x.closed
        /\ Fields(x) = Fields(close(Self))
        /\ ~closed => (x.cur_len = 0 /\ ~x.dir_exists /\ x.files = NoFiles)

\* inside a with block, with page files on disk: leaving it on an exception
\* removes them and does not suppress the exception
C36_Witness ==
    /\ scope = "with"
    /\ ~closed
    /\ cur_len > page_size
    /\ dir_exists
    /\ files # NoFiles
    /\ Falsy(exit(Self, "Exception").ret)
    /\ exit(Self, "Exception").closed
    /\ ~exit(Self, "Exception").dir_exists
    /\ enter(Self).ret = "self"

\* C37: whenever a page is resident, its number r satisfies
\* 0 <= r <= length \div page_size and it holds exactly
\* min(page_size, length - r * page_size) items.
C37_ResidentPageShape ==
    cur_page_no # None =>
        LET r == cur_page_no[1] IN
        /\ 0 <= r
        /\ r <= cur_len \div page_size
        /\ Len(cur_page_data) = Min(page_size, cur_len - r * page_size)

\* the last item of a page that is not the first was popped: that page
\* stays resident with no items
C37_Witness ==
    /\ cur_page_no # None
    /\ cur_page_no[1] > 0
    /\ cur_page_no[1] * page_size = cur_len
    /\ cur_page_data = <<>>
    /\ max_len > cur_len

\* C38: when no page is resident the length is 0 and the resident data is
\* empty; so no call asks for a page to be loaded: reads, writes and pop()
\* are refused with IndexError before any swap, iterations touch no page,
\* and append() starts page 0 empty without reading or writing a file.
C38_NoPageMeansEmpty ==
    cur_page_no = None =>
        /\ cur_len = 0
        /\ cur_page_data = <<>>
        /\ \A value \in Items :
            LET s == append(Self, value) IN
            /\ s.exc = NoExc
            /\ s.log = << <<"new", 0>> >>
            /\ s.cur_page_no = PageNo(0)
            /\ s.files = files
        /\ \A k \in Indices :
            /\ getitem(Self, k).exc = "IndexError"
            /\ getitem(Self, k).log = <<>>
            /\ \A value \in Items :
                /\ setitem(Self, k, value).exc = "IndexError"
                /\ setitem(Self, k, value).log = <<>>
        /\ pop(Self, -1).exc = "IndexError"
        /\ pop(Self, -1).log = <<>>
        /\ iterate(Self).log = <<>>
        /\ reversed(Self).log = <<>>
        /\ \A values \in SeqsUpTo(MaxExtend) : NoLoad(extend(Self, values))

\* after clear() of a sequence that had spilled to disk: no page is
\* resident, a file of page 0 is on disk, and append() does not load it
C38_Witness ==
    /\ cur_page_no = None
    /\ ~closed
    /\ max_len > page_size
    /\ 0 \in DOMAIN files
    /\ cur_len = 0
    /\ append(Self, "a").log = << <<"new", 0>> >>

\* C39: before close() the page files on disk are those of the pages
\* 0..m-1 for some m (no gaps), they are inside an existing directory, and
\* a resident page has a number of at most m.
C39_FilesArePrefix ==
    ~closed =>
        LET m == Cardinality(DOMAIN files) IN
        /\ DOMAIN files = 0..(m - 1)
        /\ files # NoFiles => (dir_exists /\ filesystem_used(Self))
        /\ cur_page_no # None => cur_page_no[1] <= m

\* two pages are on disk and the resident page, the third, has not been
\* written yet
C39_Witness ==
    /\ ~closed
    /\ DOMAIN files = {0, 1}
    /\ cur_page_no = PageNo(2)
    /\ cur_page_data # <<>>
====
